---- MODULE Spec2Model ----
(***************************************************************************)
(* Newsletter sender (src/app.py): article loading, template rendering,    *)
(* tracking links and the batch send loop.                                 *)
(*                                                                         *)
(* Text is a sequence of one-character strings, so that slicing, stripping *)
(* and find-and-replace are computed as Python computes them.  The         *)
(* horizontal ellipsis (U+2026) is the single character "U2026".           *)
(***************************************************************************)
EXTENDS Naturals, Integers, Sequences, FiniteSets, TLC

VARIABLES
    pc,              \* position of the script run inside the send handler
    vertical_input,  \* sidebar text input "Vertical"
    df,              \* Email cell of every row of the uploaded contacts CSV
    idx,             \* 1-based position of df.iterrows()
    articles,        \* result of load_articles(vertical_input)
    conn,            \* the SMTP_SSL object: "none", "open", "authed", "closed"
    opens,           \* number of SMTP_SSL connections made
    loads,           \* number of load_articles calls
    uiErrors,        \* number of precondition st.error reports
    mid_counter,     \* number of make_msgid() calls
    sent,            \* messages handed to server.sendmail, in order
    outcomes,        \* st.success / st.error reports of the loop, in order
    sleeps,          \* number of time.sleep(0.3) calls
    fn_in,           \* arguments of the helper under study
    fn_out,          \* its result
    fn_done          \* whether it has been called

vars == <<pc, vertical_input, df, idx, articles, conn, opens, loads, uiErrors,
          mid_counter, sent, outcomes, sleeps, fn_in, fn_out, fn_done>>

(***************************************************************************)
(* Bounds of the model.                                                    *)
(***************************************************************************)
MaxRows == 3
MaxText == 4
MaxN == 3
MaxSheet == 7
MaxTemplate == 3

(***************************************************************************)
(* Python string primitives.                                               *)
(***************************************************************************)
Ellipsis == "U2026"

UpperTab == <<"A","B","C","D","E","F","G","H","I","J","K","L","M","N","O","P","Q","R","S","T","U","V","W","X","Y","Z">>

LowerTab == <<"a","b","c","d","e","f","g","h","i","j","k","l","m","n","o","p","q","r","s","t","u","v","w","x","y","z">>

IsUpper(c) == \E i \in 1..26 : UpperTab[i] = c

IsLower(c) == \E i \in 1..26 : LowerTab[i] = c

LowerChar(c) == IF IsUpper(c) THEN LowerTab[CHOOSE i \in 1..26 : UpperTab[i] = c] ELSE c

UpperChar(c) == IF IsLower(c) THEN UpperTab[CHOOSE i \in 1..26 : LowerTab[i] = c] ELSE c

\* str.lower()
Lower(s) == [i \in 1..Len(s) |-> LowerChar(s[i])]

\* str.title(): a cased character is upper-cased after an uncased one (or at
\* the start) and lower-cased after a cased one.
Title(s) ==
    [i \in 1..Len(s) |->
        IF i = 1 \/ ~(IsUpper(s[i-1]) \/ IsLower(s[i-1]))
        THEN UpperChar(s[i]) ELSE LowerChar(s[i])]

Whitespace == {" ", "\t", "\n"}

RECURSIVE LStripSet(_, _)
LStripSet(s, cs) ==
    IF s # <<>> /\ Head(s) \in cs THEN LStripSet(Tail(s), cs) ELSE s

RECURSIVE RStripSet(_, _)
RStripSet(s, cs) ==
    IF s # <<>> /\ s[Len(s)] \in cs THEN RStripSet(SubSeq(s, 1, Len(s) - 1), cs) ELSE s

\* str.strip(chars)
StripSet(s, cs) == RStripSet(LStripSet(s, cs), cs)

\* s[:k]
Prefix(s, k) == SubSeq(s, 1, IF k < Len(s) THEN k ELSE Len(s))

\* p in s
Contains(s, p) ==
    \E i \in 1..(Len(s) + 1) : i + Len(p) - 1 <= Len(s) /\ SubSeq(s, i, i + Len(p) - 1) = p

\* str.find(p): the first position at which p occurs in s, 0 when none
Find(s, p) ==
    LET at == {i \in 1..(Len(s) + 1) : i + Len(p) - 1 <= Len(s) /\ SubSeq(s, i, i + Len(p) - 1) = p}
    IN  IF at = {} THEN 0 ELSE CHOOSE i \in at : \A j \in at : i <= j

\* str.replace(old, new): non-overlapping occurrences, left to right.
RECURSIVE Replace(_, _, _)
Replace(s, old, new) ==
    LET i == Find(s, old)
    IN  IF i = 0 THEN s
        ELSE SubSeq(s, 1, i - 1) \o new \o Replace(SubSeq(s, i + Len(old), Len(s)), old, new)

Digits == <<"0","1","2","3","4","5","6","7","8","9">>

\* str(int) as an f-string formats it
RECURSIVE IntStr(_)
IntStr(n) == IF n < 10 THEN <<Digits[n + 1]>> ELSE IntStr(n \div 10) \o <<Digits[(n % 10) + 1]>>

\* dict.get(key, default)
Get(r, k, default) == IF k \in DOMAIN r THEN r[k] ELSE default

\* a value Python treats as absent
None == [kind |-> "none", val |-> <<>>]

(***************************************************************************)
(* Configuration (src/app.py lines 19-27).                                 *)
(***************************************************************************)
GAS_TRACKING_URL == <<"h","t","t","p","s",":","/","/","g","a","s","/","t">>

BCC_EMAIL == <<"8","1","5","0","8","9","2","@","b","c","c",".","h","u","b","s","p","o","t",".","c","o","m">>

HashLen == 16

(***************************************************************************)
(* Helpers (src/app.py lines 61-68).                                       *)
(***************************************************************************)
\* hashlib.sha256(bytes).hexdigest() on the addresses of the model
Sha256Hex(b) ==
    CASE b = <<"a","@","x">> -> <<"b","d","3","9","e","6","f","e","a","f","d","8","3","7","0","1","1","c","6","4","e","8","a","2","9","c","3","f","d","f","f","e","5","9","f","4","1","e","1","a","0","7","1","b","9","3","6","b","b","d","6","6","b","7","c","3","1","f","b","3","9","0","d","4">>
      [] b = <<"b","@","x">> -> <<"6","8","c","7","9","1","0","3","8","5","b","4","5","f","a","8","4","4","f","6","6","c","2","6","3","c","4","1","f","5","b","3","7","3","4","3","a","1","c","1","d","9","8","7","5","4","b","d","0","6","9","8","3","c","8","4","a","a","0","b","0","6","1","b">>
      [] b = <<"c","@","y">> -> <<"c","6","3","9","2","9","9","4","a","a","0","9","7","6","f","f","a","2","5","d","1","0","6","9","b","1","0","e","6","f","b","a","3","d","d","c","d","e","d","d","3","1","d","3","2","4","0","6","8","1","8","b","8","a","3","f","b","e","d","8","8","c","3","a">>

email_hash(addr) == Prefix(Sha256Hex(Lower(addr)), HashLen)

\* truncate(s, n): s is None or a text.  The result is [raised, val]: len(s)
\* raises TypeError for None.
truncate(s, n) ==
    LET t == IF s = None THEN <<>> ELSE s.val
        cut == RStripSet(Prefix(StripSet(t, Whitespace), IF n > 0 THEN n ELSE 0), {Ellipsis})
    IN  IF s = None
        THEN [raised |-> TRUE, val |-> <<>>]
        ELSE [raised |-> FALSE,
              val |-> cut \o (IF Len(s.val) > n THEN <<Ellipsis>> ELSE <<>>)]

Text(v) == [kind |-> "str", val |-> v]

build_open_pixel(b, s, nid, sid, mid, e) ==
    <<"<","i","m","g"," ","s","r","c","=","\"">> \o GAS_TRACKING_URL \o <<"?","t","=","o","p","e","n","&","b","=">> \o b \o <<"&","s","=">> \o IntStr(s)
    \o <<"&","n","i","d","=">> \o nid \o <<"&","s","i","d","=">> \o sid \o <<"&","m","i","d","=">> \o mid \o <<"&","e","=">> \o e
    \o <<"\""," ","w","i","d","t","h","=","\"","1","\""," ","h","e","i","g","h","t","=","\"","1","\""," ","s","t","y","l","e","=","\"","d","i","s","p","l","a","y",":","n","o","n","e",";","\"",">">>

\* a plausible slip: the message id formatted into the sid parameter
build_tracking_link_mid_as_sid(t, b, s, nid, sid, mid, e, to) ==
    GAS_TRACKING_URL \o <<"?","t","=">> \o t \o <<"&","b","=">> \o b \o <<"&","s","=">> \o IntStr(s)
    \o <<"&","n","i","d","=">> \o nid \o <<"&","s","i","d","=">> \o mid \o <<"&","m","i","d","=">> \o mid \o <<"&","e","=">> \o e
    \o <<"&","t","o","=">> \o to

build_tracking_link(t, b, s, nid, sid, mid, e, to) ==
    GAS_TRACKING_URL \o <<"?","t","=">> \o t \o <<"&","b","=">> \o b \o <<"&","s","=">> \o IntStr(s)
    \o <<"&","n","i","d","=">> \o nid \o <<"&","s","i","d","=">> \o sid \o <<"&","m","i","d","=">> \o mid \o <<"&","e","=">> \o e
    \o <<"&","t","o","=">> \o to

(***************************************************************************)
(* Article source (src/app.py lines 40-59).  A sheet is the list that      *)
(* get_all_records() returns: one function from column names to cell texts *)
(* per row.                                                                *)
(***************************************************************************)
ArticleCap == 5

TruncateDefault == 140

\* truthiness of a text argument; the default None of load_articles is the
\* empty text here, both being false
Truthy(v) == Len(v) > 0

Article(r) ==
    [title    |-> Get(r, "Title", <<>>),
     subtitle |-> Get(r, "Subtitle", <<>>),
     img      |-> Get(r, "Img", <<"h","t","t","p","s",":","/","/","v","i","a",".","p","l","a","c","e","h","o","l","d","e","r",".","c","o","m","/","1","2","0">>),
     url      |-> Get(r, "Url", <<"#">>)]

\* a plausible slip: the tags compared as written
VerticalMatchesCaseSensitive(r, vertical) == Get(r, "Vertical", <<>>) = vertical

\* line 48
VerticalMatches(r, vertical) == Lower(Get(r, "Vertical", <<>>)) = Lower(vertical)

FilterRecords(records, vertical) ==
    IF Truthy(vertical)
    THEN SelectSeq(records, LAMBDA r : VerticalMatches(r, vertical))
    ELSE records

load_articles(records, vertical) ==
    LET kept == FilterRecords(records, vertical)
    IN  [i \in 1..(IF Len(kept) < ArticleCap THEN Len(kept) ELSE ArticleCap) |-> Article(kept[i])]

(***************************************************************************)
(* Rendering (src/app.py lines 108-115 and 138-146).                       *)
(***************************************************************************)
NewsSlot(j, field) == <<"{","{","n","e","w","s">> \o IntStr(j) \o <<"_">> \o field \o <<"}","}">>

\* a plausible slip: enumerate(articles) counting from 0
RenderArticleFromZero(html, art, j) ==
    LET h1 == Replace(html, NewsSlot(j - 1, <<"t","i","t","l","e">>), art.title)
        h2 == Replace(h1, NewsSlot(j - 1, <<"s","u","b","t","i","t","l","e">>), truncate(Text(art.subtitle), TruncateDefault).val)
        h3 == Replace(h2, NewsSlot(j - 1, <<"i","m","g">>), art.img)
    IN  Replace(h3, NewsSlot(j - 1, <<"u","r","l">>), art.url)

\* one pass of the body of "for j, art in enumerate(articles, 1)"
RenderArticle(html, art, j) ==
    LET h1 == Replace(html, NewsSlot(j, <<"t","i","t","l","e">>), art.title)
        h2 == Replace(h1, NewsSlot(j, <<"s","u","b","t","i","t","l","e">>), truncate(Text(art.subtitle), TruncateDefault).val)
        h3 == Replace(h2, NewsSlot(j, <<"i","m","g">>), art.img)
    IN  Replace(h3, NewsSlot(j, <<"u","r","l">>), art.url)

RECURSIVE RenderArticles(_, _, _)
RenderArticles(html, arts, j) ==
    IF j > Len(arts) THEN html
    ELSE RenderArticles(RenderArticle(html, arts[j], j), arts, j + 1)

\* the placeholder substitutions of either path, given the two link values
Substitute(template, vert, arts, prefs, unsub) ==
    LET h0 == Replace(template, <<"{","{","v","e","r","t","i","c","a","l","_","n","a","m","e","}","}">>, Title(vert))
        h1 == RenderArticles(h0, arts, 1)
        h2 == Replace(h1, <<"{","{","p","r","e","f","s","_","l","i","n","k","}","}">>, prefs)
    IN  Replace(h2, <<"{","{","u","n","s","u","b","_","l","i","n","k","}","}">>, unsub)

PreviewHtml(template, vert, arts) == Substitute(template, vert, arts, <<"#">>, <<"#">>)

NewsletterId == <<"n","i","d">>

\* a plausible slip: the raw address as subscriber id of the links
SendLinksRawSid(batch, stp, email, mid) ==
    LET ehash == email_hash(email)
        m == StripSet(mid, {"<", ">"})
    IN  [prefs |-> build_tracking_link(<<"p","r","e","f","s">>, batch, stp, NewsletterId, email, m, ehash, <<>>),
         unsub |-> build_tracking_link(<<"u","n","s","u","b","s","c","r","i","b","e">>, batch, stp, NewsletterId, email, m, ehash, <<>>),
         pixel |-> build_open_pixel(batch, stp, NewsletterId, ehash, m, ehash)]

\* lines 135 and 144-146: the hash of the address and the three tracking values
SendLinks(batch, stp, email, mid) ==
    LET ehash == email_hash(email)
    IN  [prefs |-> build_tracking_link(<<"p","r","e","f","s">>, batch, stp, NewsletterId, ehash,
                                       StripSet(mid, {"<", ">"}), ehash, <<>>),
         unsub |-> build_tracking_link(<<"u","n","s","u","b","s","c","r","i","b","e">>, batch, stp, NewsletterId, ehash,
                                       StripSet(mid, {"<", ">"}), ehash, <<>>),
         pixel |-> build_open_pixel(batch, stp, NewsletterId, ehash,
                                    StripSet(mid, {"<", ">"}), ehash)]

SendHtml(template, vert, arts, batch, stp, email, mid) ==
    LET links == SendLinks(batch, stp, email, mid)
        h == Substitute(template, vert, arts, links.prefs, links.unsub)
    IN  Replace(h, <<"<","/","b","o","d","y",">">>, links.pixel \o <<"<","/","b","o","d","y",">">>)

(***************************************************************************)
(* The send handler (src/app.py lines 121-166), one script run with the    *)
(* send button pressed.  A cell of the Email column is a text, NaN (an     *)
(* empty CSV cell as pandas.read_csv reads it) or None (row.get on a file   *)
(* without an Email column).                                               *)
(***************************************************************************)
NaN == [kind |-> "nan", val |-> <<>>]

EmailCells == {NaN, Text(<<"a","@","x">>), Text(<<"B","@","x">>), Text(<<"c","@","y">>), Text(<<"a","x">>)}

ContactFiles ==
    UNION {[1..n -> EmailCells] : n \in 0..MaxRows}
    \cup {[i \in 1..n |-> None] : n \in 1..MaxRows}

Verticals == {<<>>, <<"f","i","n">>}

batch_name == <<"B","1">>

step == 1

html_template ==
    <<"<","b","o","d","y",">","{","{","v","e","r","t","i","c","a","l","_","n","a","m","e","}","}",":","{","{","n","e","w","s","1","_","t","i","t","l","e","}","}","<","a"," ","h","r","e","f","=","\"","{","{","p","r","e","f","s","_","l","i","n","k","}","}","\"",">","p","<","/","a",">","<","a"," ","h","r","e","f","=","\"","{","{","u","n","s","u","b","_","l","i","n","k","}","}","\"",">","u","<","/","a",">","<","/","b","o","d","y",">">>

Sheet ==
    << [Vertical |-> <<"F","i","n">>, Title |-> <<"T","1">>, Subtitle |-> <<"s","1">>, Img |-> <<"i","1">>, Url |-> <<"u","1">>],
       [Vertical |-> <<"o","t","h">>, Title |-> <<"T","2">>, Subtitle |-> <<"s","2">>, Img |-> <<"i","2">>, Url |-> <<"u","2">>] >>

\* make_msgid(): a fresh "<unique@host>" per call
make_msgid(k) == <<"<","m">> \o IntStr(k) \o <<"@","h",">">>

\* "not email": None and the empty text are false, NaN is true
NotEmail(cell) == cell.kind = "none" \/ (cell.kind = "str" /\ cell.val = <<>>)

\* '"@" not in email' raises TypeError when email is a float
InRaises(cell) == cell.kind = "nan"

\* line 131
Skipped(cell) == NotEmail(cell) \/ (~InRaises(cell) /\ ~Contains(cell.val, <<"@">>))

\* a plausible slip: the precondition is not tested
VerticalGivenAlways(v) == TRUE

\* line 122
VerticalGiven(v) == Truthy(v)

Message(row, email, mid, c) ==
    [row       |-> row,
     To        |-> email,
     rcpts     |-> <<email, BCC_EMAIL>>,
     MessageId |-> mid,
     html      |-> SendHtml(html_template, vertical_input, articles, batch_name, step, email, mid),
     connAt    |-> c]

SendIdle ==
    /\ pc = "off" /\ vertical_input = <<>> /\ df = <<>> /\ idx = 1 /\ articles = <<>>
    /\ conn = "none" /\ opens = 0 /\ loads = 0 /\ uiErrors = 0 /\ mid_counter = 0
    /\ sent = <<>> /\ outcomes = <<>> /\ sleeps = 0

FnIdle == fn_in = <<>> /\ fn_out = <<>> /\ fn_done = FALSE

Init ==
    /\ pc = "send"
    /\ vertical_input \in Verticals
    /\ df \in ContactFiles
    /\ idx = 1
    /\ articles = <<>>
    /\ conn = "none"
    /\ opens = 0 /\ loads = 0 /\ uiErrors = 0 /\ mid_counter = 0
    /\ sent = <<>> /\ outcomes = <<>> /\ sleeps = 0
    /\ FnIdle

\* lines 122-123: no vertical, the error is shown and the run ends
SendWithoutVertical ==
    /\ pc = "send"
    /\ ~VerticalGiven(vertical_input)
    /\ uiErrors' = uiErrors + 1
    /\ pc' = "done"
    /\ UNCHANGED <<vertical_input, df, idx, articles, conn, opens, loads,
                   mid_counter, sent, outcomes, sleeps, fn_in, fn_out, fn_done>>

\* line 125: load_articles returns, or the sheet cannot be read and the
\* exception ends the run
LoadArticles ==
    /\ pc = "send"
    /\ VerticalGiven(vertical_input)
    /\ loads' = loads + 1
    /\ \/ articles' = load_articles(Sheet, vertical_input) /\ pc' = "connect"
       \/ articles' = articles /\ pc' = "aborted"
    /\ UNCHANGED <<vertical_input, df, idx, conn, opens, uiErrors,
                   mid_counter, sent, outcomes, sleeps, fn_in, fn_out, fn_done>>

\* line 126: SMTP_SSL(host, port) connects, or raises and the run ends
Connect ==
    /\ pc = "connect"
    /\ \/ conn' = "open" /\ opens' = opens + 1 /\ pc' = "login"
       \/ conn' = conn /\ opens' = opens /\ pc' = "aborted"
    /\ UNCHANGED <<vertical_input, df, idx, articles, loads, uiErrors,
                   mid_counter, sent, outcomes, sleeps, fn_in, fn_out, fn_done>>

\* line 127: server.login, before the with block is entered; when it raises
\* the run ends and nothing closes the connection
Login ==
    /\ pc = "login"
    /\ \/ conn' = "authed" /\ pc' = "loop"
       \/ conn' = conn /\ pc' = "aborted"
    /\ UNCHANGED <<vertical_input, df, idx, articles, opens, loads, uiErrors,
                   mid_counter, sent, outcomes, sleeps, fn_in, fn_out, fn_done>>

\* a plausible slip: the delay placed before the continue
RowSkipSleeps ==
    /\ pc = "loop" /\ idx <= Len(df)
    /\ Skipped(df[idx])
    /\ sleeps' = sleeps + 1
    /\ idx' = idx + 1
    /\ UNCHANGED <<pc, vertical_input, df, articles, conn, opens, loads, uiErrors,
                   mid_counter, sent, outcomes, fn_in, fn_out, fn_done>>

\* lines 130-132: the row is skipped by continue
RowSkip ==
    /\ pc = "loop" /\ idx <= Len(df)
    /\ Skipped(df[idx])
    /\ idx' = idx + 1
    /\ UNCHANGED <<pc, vertical_input, df, articles, conn, opens, loads, uiErrors,
                   mid_counter, sent, outcomes, sleeps, fn_in, fn_out, fn_done>>

\* line 131 raises TypeError: the with block closes the connection on the
\* way out and the run ends
RowTypeError ==
    /\ pc = "loop" /\ idx <= Len(df)
    /\ ~NotEmail(df[idx]) /\ InRaises(df[idx])
    /\ conn' = "closed"
    /\ pc' = "aborted"
    /\ UNCHANGED <<vertical_input, df, idx, articles, opens, loads, uiErrors,
                   mid_counter, sent, outcomes, sleeps, fn_in, fn_out, fn_done>>

\* lines 134-166: the message is built and handed to sendmail, which returns
\* or raises; either is reported, and the loop sleeps
RowDispatch ==
    /\ pc = "loop" /\ idx <= Len(df)
    /\ ~Skipped(df[idx]) /\ ~InRaises(df[idx])
    /\ LET email == df[idx].val
           mid == make_msgid(mid_counter + 1)
       IN  /\ mid_counter' = mid_counter + 1
           /\ sent' = Append(sent, Message(idx, email, mid, conn))
           /\ \E status \in {"success", "failure"} :
                 outcomes' = Append(outcomes, [row |-> idx, email |-> email, status |-> status])
    /\ sleeps' = sleeps + 1
    /\ idx' = idx + 1
    /\ UNCHANGED <<pc, vertical_input, df, articles, conn, opens, loads, uiErrors,
                   fn_in, fn_out, fn_done>>

\* line 128: the with block ends after the last row and closes the connection
ExitWith ==
    /\ pc = "loop" /\ idx > Len(df)
    /\ conn' = "closed"
    /\ pc' = "done"
    /\ UNCHANGED <<vertical_input, df, idx, articles, opens, loads, uiErrors,
                   mid_counter, sent, outcomes, sleeps, fn_in, fn_out, fn_done>>

Next ==
    \/ SendWithoutVertical
    \/ LoadArticles
    \/ Connect
    \/ Login
    \/ RowSkip
    \/ RowTypeError
    \/ RowDispatch
    \/ ExitWith

Spec == Init /\ [][Next]_vars


(***************************************************************************)
(* Properties of the send handler.                                         *)
(***************************************************************************)
Terminated == pc \in {"done", "aborted"}

\* a row the loop is meant to send to: its email is a text containing "@"
ValidCell(cell) == cell.kind = "str" /\ Contains(cell.val, <<"@">>)

ValidRows == SelectSeq([i \in 1..Len(df) |-> i], LAMBDA i : ValidCell(df[i]))

SentRows == [i \in 1..Len(sent) |-> sent[i].row]

OutcomeRows == [i \in 1..Len(outcomes) |-> outcomes[i].row]

Occurrences(s, p) == {i \in 1..Len(s) : i + Len(p) - 1 <= Len(s) /\ SubSeq(s, i, i + Len(p) - 1) = p}

\* the text from position i up to the next "&" or double quote
ValueAt(s, i) ==
    LET stops == {j \in i..Len(s) : s[j] \in {"&", "\""}}
        e == IF stops = {} THEN Len(s) + 1 ELSE CHOOSE j \in stops : \A k \in stops : j <= k
    IN  SubSeq(s, i, e - 1)

\* the values of query parameter key wherever it occurs in s
ParamValues(s, key) ==
    {ValueAt(s, i + Len(key) + 2) : i \in Occurrences(s, <<"&">> \o key \o <<"=">>)}

\* C1: once the batch has run (the connection was opened and closed), every
\* valid contact was attempted exactly once in source order and has exactly
\* one outcome, whatever the dispatch errors.
C1_FailureIsolation ==
    conn = "closed" => SentRows = ValidRows /\ OutcomeRows = ValidRows

\* C2: a row whose email is missing or lacks "@" is skipped without attempt or
\* outcome, and the batch goes on: the run never ends at such a row.
C2_InvalidRowsSkipped ==
    \A i \in 1..Len(df) :
        ~ValidCell(df[i]) =>
            /\ \A k \in 1..Len(sent) : sent[k].row # i
            /\ \A k \in 1..Len(outcomes) : outcomes[k].row # i
            /\ ~(pc = "aborted" /\ conn = "closed" /\ idx = i)

\* C3: with an empty vertical the send action reports an error and starts
\* nothing: no articles loaded, no connection opened, nothing dispatched.
C3_NoVerticalNoBatch ==
    vertical_input = <<>> =>
        /\ loads = 0 /\ opens = 0 /\ conn = "none" /\ sent = <<>> /\ outcomes = <<>>
        /\ pc \in {"send", "done"}
        /\ (pc = "done" => uiErrors = 1)

C3_Witness ==
    vertical_input = <<>> /\ pc = "done" /\ uiErrors = 1 /\ Len(df) = 2 /\ ValidCell(df[1])

\* C8: the connection is opened at most once per batch, is closed on every
\* path out of a run that opened it, and every dispatch happens on the open,
\* authenticated connection.
C8_TransportLifecycle ==
    /\ opens <= 1
    /\ (Terminated /\ opens = 1 => conn = "closed")
    /\ \A k \in 1..Len(sent) : sent[k].connAt = "authed"

\* C9 as stated: when the batch completes, the number of delays equals the
\* number of contact rows (skipped rows included).
C9_DelayPerRow == pc = "done" /\ conn = "closed" => sleeps = Len(df)

\* C9 amended: one delay per row that reaches dispatch, success or failure, and
\* none for a skipped row: the delays number the dispatch attempts.
C9_DelayPerDispatch ==
    /\ sleeps = Len(sent)
    /\ sleeps = Len(outcomes)
    /\ (pc \in {"loop", "done"} /\ conn # "none" =>
            sleeps = Cardinality({i \in 1..(idx - 1) : ValidCell(df[i])}))

C9_Witness ==
    /\ pc = "done" /\ Len(df) = 3 /\ sleeps = 2
    /\ ~ValidCell(df[2])
    /\ outcomes[1].status = "failure" /\ outcomes[2].status = "success"

\* C10: every dispatched message carries one message id: its Message-Id
\* header, stripped of the angle brackets, is the mid of the prefs link, the
\* unsubscribe link and the open pixel; their sid and e are the hash of the
\* recipient and not the address; no two messages share an id.
C10_MessageIdentity ==
    /\ mid_counter = Len(sent)
    /\ \A k \in 1..Len(sent) :
          LET m == sent[k]
          IN  /\ ParamValues(m.html, <<"m","i","d">>) = {StripSet(m.MessageId, {"<", ">"})}
              /\ ParamValues(m.html, <<"s","i","d">>) = {email_hash(m.To)}
              /\ ParamValues(m.html, <<"e">>) = {email_hash(m.To)}
              /\ email_hash(m.To) # m.To
              /\ Len(email_hash(m.To)) = HashLen
              /\ ~Contains(m.html, m.To)
              /\ \A j \in 1..Len(sent) : j # k => sent[j].MessageId # m.MessageId

C10_Witness ==
    /\ Len(sent) = 2
    /\ sent[1].To # sent[2].To
    /\ \A k \in 1..2 :
          /\ Cardinality(Occurrences(sent[k].html, <<"&","m","i","d","=">>)) = 3
          /\ Contains(sent[k].html, <<"?","t","=","p","r","e","f","s","&">>)
          /\ Contains(sent[k].html, <<"?","t","=","u","n","s","u","b","s","c","r","i","b","e","&">>)
          /\ Contains(sent[k].html, <<"?","t","=","o","p","e","n","&">>)


(***************************************************************************)
(* truncate on its own: every text of up to MaxText characters over a      *)
(* blank, a letter and the ellipsis, and None, with every n up to MaxN.    *)
(***************************************************************************)
RECURSIVE TextsUpTo(_, _)
TextsUpTo(chars, n) ==
    IF n = 0 THEN {<<>>}
    ELSE LET shorter == TextsUpTo(chars, n - 1)
         IN  shorter \cup {Append(t, c) : t \in shorter, c \in chars}

TruncateInputs ==
    {[s |-> x, n |-> n] :
        x \in {None} \cup {Text(t) : t \in TextsUpTo({" ", "a", Ellipsis}, MaxText)},
        n \in 0..MaxN}

InitTruncate ==
    /\ SendIdle
    /\ fn_in \in TruncateInputs
    /\ fn_out = [raised |-> FALSE, val |-> <<>>]
    /\ fn_done = FALSE

TruncateCall ==
    /\ ~fn_done
    /\ fn_out' = truncate(fn_in.s, fn_in.n)
    /\ fn_done' = TRUE
    /\ UNCHANGED <<fn_in, pc, vertical_input, df, idx, articles, conn, opens, loads,
                   uiErrors, mid_counter, sent, outcomes, sleeps>>

NextTruncate == TruncateCall

SpecTruncate == InitTruncate /\ [][NextTruncate]_vars

\* C4: truncate(s, N) has length at most N+1; it ends with an ellipsis when the
\* trimmed text is longer than N; it is the trimmed text itself when that has
\* length at most N; empty or absent text gives the empty text.
C4_Truncation ==
    fn_done =>
        LET t == IF fn_in.s = None THEN <<>> ELSE StripSet(fn_in.s.val, Whitespace)
            n == fn_in.n
        IN  /\ ~fn_out.raised
            /\ Len(fn_out.val) <= n + 1
            /\ (Len(t) > n => fn_out.val # <<>> /\ fn_out.val[Len(fn_out.val)] = Ellipsis)
            /\ (Len(t) <= n => fn_out.val = t)

(***************************************************************************)
(* build_tracking_link on its own, called with and without a "to" value.   *)
(***************************************************************************)
MaxStep == 2

LinkInputs ==
    [t : {<<"o","p","e","n">>, <<"p","r","e","f","s">>, <<"u","n","s","u","b","s","c","r","i","b","e">>},
     b : {<<"B","1">>, <<"x">>},
     s : 1..MaxStep,
     nid : {<<"n">>},
     sid : {<<"s">>, Prefix(Sha256Hex(<<"a","@","x">>), HashLen)},
     mid : {<<"m">>, <<"m","1","@","h">>},
     e : {<<"h">>, Prefix(Sha256Hex(<<"a","@","x">>), HashLen)},
     hasTo : BOOLEAN,
     to : {<<"u">>}]

InitLink ==
    /\ SendIdle
    /\ fn_in \in LinkInputs
    /\ fn_out = <<>>
    /\ fn_done = FALSE

\* the call, with the default to="" of line 67 when no value is passed
LinkCall ==
    /\ ~fn_done
    /\ fn_out' = build_tracking_link(fn_in.t, fn_in.b, fn_in.s, fn_in.nid, fn_in.sid,
                                     fn_in.mid, fn_in.e, IF fn_in.hasTo THEN fn_in.to ELSE <<>>)
    /\ fn_done' = TRUE
    /\ UNCHANGED <<fn_in, pc, vertical_input, df, idx, articles, conn, opens, loads,
                   uiErrors, mid_counter, sent, outcomes, sleeps>>

NextLink == LinkCall

SpecLink == InitLink /\ [][NextLink]_vars

\* the URL up to and including e, as the documented shape has it
UrlShape(a) ==
    GAS_TRACKING_URL \o <<"?","t","=">> \o a.t \o <<"&","b","=">> \o a.b \o <<"&","s","=">> \o IntStr(a.s)
    \o <<"&","n","i","d","=">> \o a.nid \o <<"&","s","i","d","=">> \o a.sid \o <<"&","m","i","d","=">> \o a.mid \o <<"&","e","=">> \o a.e

\* C5 as stated: without a "to" value the link is exactly <base>?t=..&b=..
\* &s=..&nid=..&sid=..&mid=..&e=.. with no further parameter; "&to=<value>" is
\* appended only when a value is given.
C5_TrackingUrlShape ==
    fn_done =>
        fn_out = IF fn_in.hasTo THEN UrlShape(fn_in) \o <<"&","t","o","=">> \o fn_in.to ELSE UrlShape(fn_in)

\* C5 amended: the link is <base>?t=..&b=..&s=..&nid=..&sid=..&mid=..&e=..
\* followed by "&to=" and the "to" value, which is empty when none is given:
\* the to parameter is always present.
C5_ToAlwaysPresent ==
    fn_done =>
        fn_out = UrlShape(fn_in) \o <<"&","t","o","=">> \o (IF fn_in.hasTo THEN fn_in.to ELSE <<>>)

C5_Witness ==
    /\ fn_done /\ ~fn_in.hasTo
    /\ fn_in.t = <<"o","p","e","n">> /\ fn_in.b = <<"B","1">> /\ fn_in.s = 1 /\ fn_in.nid = <<"n">>
    /\ fn_in.sid = <<"s">> /\ fn_in.mid = <<"m">> /\ fn_in.e = <<"h">>
    /\ fn_out = GAS_TRACKING_URL \o <<"?","t","=","o","p","e","n","&","b","=","B","1","&","s","=","1","&","n","i","d","=","n","&","s","i","d","=","s","&","m","i","d","=","m","&","e","=","h","&","t","o","=">>

(***************************************************************************)
(* load_articles on its own: sheets of up to MaxSheet rows whose tags vary *)
(* in case, with and without a Vertical column.                            *)
(***************************************************************************)
Tags == {<<"F","i","n">>, <<"F","I","N">>, <<"a","r","t">>}

Row(i, tag) ==
    [Vertical |-> tag, Title |-> <<"T">> \o IntStr(i), Subtitle |-> <<"s">> \o IntStr(i),
     Img |-> <<"i">> \o IntStr(i), Url |-> <<"u">> \o IntStr(i)]

UntaggedRow(i) == [Title |-> <<"T">> \o IntStr(i), Subtitle |-> <<"s">> \o IntStr(i)]

Sheets ==
    {[i \in 1..Len(tags) |-> Row(i, tags[i])] : tags \in UNION {[1..k -> Tags] : k \in 0..MaxSheet}}
    \cup {[i \in 1..n |-> UntaggedRow(i)] : n \in 1..MaxSheet}

ArticleInputs == [sheet : Sheets, vertical : {<<>>, <<"f","i","n">>, <<"A","r","t">>}]

InitArticles ==
    /\ SendIdle
    /\ fn_in \in ArticleInputs
    /\ fn_out = <<>>
    /\ fn_done = FALSE

LoadCall ==
    /\ ~fn_done
    /\ fn_out' = load_articles(fn_in.sheet, fn_in.vertical)
    /\ fn_done' = TRUE
    /\ UNCHANGED <<fn_in, pc, vertical_input, df, idx, articles, conn, opens, loads,
                   uiErrors, mid_counter, sent, outcomes, sleeps>>

NextArticles == LoadCall

SpecArticles == InitArticles /\ [][NextArticles]_vars

\* equality of two tags up to the case of their letters
SameIgnoringCase(a, b) == Len(a) = Len(b) /\ \A i \in 1..Len(a) : UpperChar(a[i]) = UpperChar(b[i])

\* the rows the call is meant to draw from, in source order
MatchingRows(sheet, vertical) ==
    SelectSeq([i \in 1..Len(sheet) |-> i],
              LAMBDA i : vertical = <<>>
                         \/ ("Vertical" \in DOMAIN sheet[i] /\ SameIgnoringCase(sheet[i].Vertical, vertical)))

\* C7: load_articles returns the first min(5, k) of the k rows whose tag equals
\* the vertical case-insensitively, in source order; with no vertical, the
\* first 5 rows.
C7_LoadArticles ==
    fn_done =>
        LET rows == MatchingRows(fn_in.sheet, fn_in.vertical)
            k == Len(rows)
        IN  /\ Len(fn_out) = (IF k < 5 THEN k ELSE 5)
            /\ \A j \in 1..Len(fn_out) :
                  /\ fn_out[j].title = fn_in.sheet[rows[j]].Title
                  /\ fn_out[j].subtitle = fn_in.sheet[rows[j]].Subtitle
                  /\ fn_out[j].img = Get(fn_in.sheet[rows[j]], "Img", <<"h","t","t","p","s",":","/","/","v","i","a",".","p","l","a","c","e","h","o","l","d","e","r",".","c","o","m","/","1","2","0">>)
                  /\ fn_out[j].url = Get(fn_in.sheet[rows[j]], "Url", <<"#">>)

C7_Witness ==
    /\ fn_done
    /\ fn_in.vertical = <<"f","i","n">>
    /\ Len(fn_in.sheet) = 7
    /\ Len(MatchingRows(fn_in.sheet, fn_in.vertical)) = 6
    /\ fn_in.sheet[1].Vertical = <<"F","I","N">>
    /\ fn_in.sheet[2].Vertical = <<"a","r","t">>
    /\ Len(fn_out) = 5
    /\ fn_out[2].title = <<"T","3">>


(***************************************************************************)
(* The placeholder substitutions on their own, on the preview path and on  *)
(* the send path: templates of up to MaxTemplate pieces, each a            *)
(* placeholder, plain text, a pair of braces or a bare slot name; article   *)
(* lists with and without placeholder text among their values.             *)
(***************************************************************************)
Placeholders ==
    {NewsSlot(j, f) : j \in 1..ArticleCap, f \in {<<"t","i","t","l","e">>, <<"s","u","b","t","i","t","l","e">>, <<"i","m","g">>, <<"u","r","l">>}}
    \cup {<<"{","{","v","e","r","t","i","c","a","l","_","n","a","m","e","}","}">>, <<"{","{","p","r","e","f","s","_","l","i","n","k","}","}">>, <<"{","{","u","n","s","u","b","_","l","i","n","k","}","}">>}

Pieces ==
    {<<"{","{","n","e","w","s","1","_","t","i","t","l","e","}","}">>, <<"{","{","n","e","w","s","5","_","u","r","l","}","}">>, <<"{","{","v","e","r","t","i","c","a","l","_","n","a","m","e","}","}">>, <<"{","{","u","n","s","u","b","_","l","i","n","k","}","}">>,
     <<"x">>, <<"{","{">>, <<"}","}">>}

RECURSIVE Concat(_)
Concat(ps) == IF ps = <<>> THEN <<>> ELSE Head(ps) \o Concat(Tail(ps))

Templates == {Concat(ps) : ps \in UNION {[1..n -> Pieces] : n \in 0..MaxTemplate}}

PlainArticles(n) ==
    [j \in 1..n |-> [title |-> <<"T">> \o IntStr(j), subtitle |-> <<"s">> \o IntStr(j),
                     img |-> <<"i">> \o IntStr(j), url |-> <<"u">> \o IntStr(j)]]

ArticleLists ==
    {PlainArticles(ArticleCap),
     PlainArticles(2),
     [PlainArticles(ArticleCap) EXCEPT ![5].url = <<"{","{","n","e","w","s","1","_","t","i","t","l","e","}","}">>],
     [PlainArticles(ArticleCap) EXCEPT ![1].title = <<"{","{","n","e","w","s","5","_","u","r","l","}","}">>],
     [PlainArticles(ArticleCap) EXCEPT ![5].url = <<"n","e","w","s","1","_","t","i","t","l","e">>]}

RenderInputs == [template : Templates, arts : ArticleLists, vert : {<<"f","i","n">>}]

InitRender ==
    /\ SendIdle
    /\ fn_in \in RenderInputs
    /\ fn_out = [path |-> "none", html |-> <<>>, prefs |-> <<>>, unsub |-> <<>>]
    /\ fn_done = FALSE

\* lines 108-115
RenderPreview ==
    /\ ~fn_done
    /\ fn_out' = [path |-> "preview",
                  html |-> PreviewHtml(fn_in.template, fn_in.vert, fn_in.arts),
                  prefs |-> <<"#">>, unsub |-> <<"#">>]
    /\ fn_done' = TRUE
    /\ UNCHANGED <<fn_in, pc, vertical_input, df, idx, articles, conn, opens, loads,
                   uiErrors, mid_counter, sent, outcomes, sleeps>>

\* lines 138-145, for one contact
RenderSend ==
    /\ ~fn_done
    /\ LET links == SendLinks(batch_name, step, <<"a","@","x">>, make_msgid(1))
       IN  fn_out' = [path |-> "send",
                      html |-> Substitute(fn_in.template, fn_in.vert, fn_in.arts, links.prefs, links.unsub),
                      prefs |-> links.prefs, unsub |-> links.unsub]
    /\ fn_done' = TRUE
    /\ UNCHANGED <<fn_in, pc, vertical_input, df, idx, articles, conn, opens, loads,
                   uiErrors, mid_counter, sent, outcomes, sleeps>>

NextRender == RenderPreview \/ RenderSend

SpecRender == InitRender /\ [][NextRender]_vars

Unresolved(html) == {p \in Placeholders : Contains(html, p)}

Braces == {"{", "}"}

BraceFree(v) == \A i \in 1..Len(v) : v[i] \notin Braces

\* every brace of the template lies inside an occurrence of a recognized placeholder
BracesOnlyInPlaceholders(template) ==
    LET covered == UNION {UNION {k..(k + Len(p) - 1) : k \in Occurrences(template, p)} : p \in Placeholders}
    IN  \A i \in 1..Len(template) : template[i] \in Braces => i \in covered

\* the values the substitution steps insert
InsertedValues ==
    {Title(fn_in.vert), fn_out.prefs, fn_out.unsub}
    \cup UNION {{fn_in.arts[j].title, truncate(Text(fn_in.arts[j].subtitle), TruncateDefault).val,
                 fn_in.arts[j].img, fn_in.arts[j].url} : j \in 1..Len(fn_in.arts)}

\* C6 as stated: with a value for every slot (5 articles, the vertical, both
\* links) the rendered HTML contains no recognized placeholder, whatever the
\* template and the values; a template without placeholders is unchanged.
C6_RoundTrip ==
    fn_done =>
        /\ (Len(fn_in.arts) = ArticleCap => Unresolved(fn_out.html) = {})
        /\ (Unresolved(fn_in.template) = {} => fn_out.html = fn_in.template)

\* C6 amended: the same, provided no inserted value contains a brace and every
\* brace of the template belongs to a recognized placeholder.
C6_RoundTripBraceFree ==
    fn_done =>
        /\ (/\ Len(fn_in.arts) = ArticleCap
            /\ BracesOnlyInPlaceholders(fn_in.template)
            /\ \A v \in InsertedValues : BraceFree(v)
            => Unresolved(fn_out.html) = {})
        /\ (Unresolved(fn_in.template) = {} => fn_out.html = fn_in.template)

C6_Witness ==
    /\ fn_done /\ fn_out.path = "send"
    /\ Len(fn_in.arts) = ArticleCap
    /\ BracesOnlyInPlaceholders(fn_in.template)
    /\ \A v \in InsertedValues : BraceFree(v)
    /\ Cardinality(Unresolved(fn_in.template)) = 3
    /\ Contains(fn_in.template, <<"{","{","n","e","w","s","5","_","u","r","l","}","}">>)
    /\ Contains(fn_in.template, <<"{","{","u","n","s","u","b","_","l","i","n","k","}","}">>)
    /\ Unresolved(fn_out.html) = {}
    /\ Contains(fn_out.html, fn_out.unsub)


====
